---- MODULE Spec2Model ----
(***************************************************************************)
(* Hybrid retrieval and reranking engine of the article analyst:           *)
(*   articles/utils.py    normalize_search_results, perform_vector_search, *)
(*                        perform_atlas_search, normalize_hybrid_scores,   *)
(*                        perform_hybrid_search                            *)
(*   articles/reranker.py Reranker, rerank_search_results                  *)
(*                                                                         *)
(* Python dictionaries are functions from key strings to values; a key     *)
(* that is absent from the dictionary is absent from the DOMAIN.  Python   *)
(* floats are exact rationals [num, den] in lowest terms.  Identifiers and *)
(* raw scores are tagged with their Python type; None is 0 for a rank and  *)
(* the empty text for a display field (both are falsy in the source).      *)
(***************************************************************************)
EXTENDS Integers, Sequences, FiniteSets, TLC

VARIABLES
    pc,               \* position of the running call
    vector_results,   \* normalize_hybrid_scores / perform_hybrid_search: vector list
    text_results,     \* normalize_hybrid_scores / perform_hybrid_search: lexical list
    vector_weight,    \* weight of the vector list
    text_weight,      \* weight of the lexical list
    combined_results, \* normalize_hybrid_scores: the fused list
    results,          \* normalize_search_results: the raw records
    processed_results, \* normalize_search_results: the normalized records
    normalized_again, \* normalize_search_results applied to processed_results
    raised,           \* the exception that left the call, "" when none did
    _cross_encoder,   \* Reranker._cross_encoder: "None", "CrossEncoder" or "dict"
    query,            \* the query of the call
    docs,             \* the candidates handed to the reranker
    limit,            \* the limit of the call
    returned,         \* the list the call returned
    strategy,         \* the strategy the reranker logged for its scores
    load_outcome,     \* what the model loaders did in the call
    predict_outcome,  \* what the loaded model did in the call
    apply_reranking,  \* perform_hybrid_search: the apply_reranking argument
    vector_outcome,   \* how perform_vector_search ended: "returned" or "raised"
    text_outcome,     \* how perform_atlas_search ended: "returned" or "raised"
    raw_shape,        \* what raw_aggregate yields: "dict" or "object" records
    embedding,        \* what the embedding model did in generate_query_embedding
    thread_pc,        \* position of each thread of the process
    thread_model,     \* the model get_e5_model returned to each thread, 0 for none
    _e5_model,        \* utils._e5_model: 0 for None, else the number of the instance
    e5_loads,         \* calls of SentenceTransformer(...) made so far
    reranker_calls,   \* calls of Reranker(...) made so far
    load_attempts,    \* calls of Reranker._load_model made so far
    doc_texts,        \* _calculate_fallback_score: the candidate texts scored
    fallback_scores,  \* _calculate_fallback_score: the score of each text
    vector_stage,     \* the $vectorSearch stages handed to raw_aggregate in the call
    model_name,       \* self.model_name of the Reranker each thread constructed last
    loaded_model_name, \* the name of the model held by Reranker._cross_encoder
    latest_model_name, \* self.model_name of the Reranker constructed last
    heap,             \* the objects of the process: address -> dict, instance or list
    entry_heap,       \* the heap when the call was made
    args,             \* the addresses of the lists passed to the call
    result_list,      \* the address of the list the call returned, 0 for none
    scores,           \* Reranker.rerank: the scores list of the call
    need_embedding,   \* the articles of the collection that match the task's query
    total_need_embedding, \* create_all_embeddings: count_documents(query)
    articles_to_process,  \* create_all_embeddings: the number of articles to handle
    processed,        \* create_all_embeddings: articles updated
    failed,           \* create_all_embeddings: articles counted as failed
    article_ids,      \* create_all_embeddings: the articles of the current batch
    batch_size,       \* create_all_embeddings: the batch_size argument
    idx,              \* create_all_embeddings: articles of the batch updated so far
    counted           \* times each article was counted as processed or failed

fusionVars == <<vector_results, text_results, vector_weight, text_weight,
                combined_results>>

normalizeVars == <<results, processed_results, normalized_again>>

rerankVars == <<_cross_encoder, query, docs, limit, returned, strategy,
                load_outcome, predict_outcome>>

searchVars == <<apply_reranking, vector_outcome, text_outcome, raw_shape, embedding,
                vector_stage>>

threadVars == <<thread_pc, thread_model, _e5_model, e5_loads, reranker_calls,
                load_attempts, model_name, loaded_model_name, latest_model_name>>

heuristicVars == <<doc_texts, fallback_scores>>

heapVars == <<heap, entry_heap, args, result_list, scores>>

taskVars == <<need_embedding, total_need_embedding, articles_to_process, processed,
              failed, article_ids, batch_size, idx, counted>>

vars == <<pc, raised, fusionVars, normalizeVars, rerankVars, searchVars, threadVars,
          heuristicVars, heapVars, taskVars>>

----------------------------------------------------------------------------
\* Bounds of the model

\* longest result list handed to the fusion
MaxLen == 3

\* longest raw list handed to the normalizer
MaxRaw == 2

\* longest candidate list handed to the reranker
MaxDocs == 3

\* largest limit of a call
MaxLimit == 3

\* most records an index returns to one query
MaxHits == 2

\* threads of the process
MaxThreads == 3

\* longest of the short candidate texts of the token matching
MaxText == 3

\* most repetitions of a token in a candidate text
MaxRepeat == 25

\* calls of Reranker(...) in the process
MaxCalls == 3

\* most articles of the collection that lack an embedding
MaxArticles == 3

\* largest batch_size of create_all_embeddings
MaxBatch == 2

----------------------------------------------------------------------------
\* Exact rational arithmetic for the float computations

RECURSIVE GCD(_, _)
GCD(a, b) == IF b = 0 THEN a ELSE GCD(b, a % b)

Abs(n) == IF n < 0 THEN -n ELSE n

Rat(n, d) ==
    LET g == GCD(Abs(n), d)
    IN  [num |-> n \div g, den |-> d \div g]

RZero == Rat(0, 1)

RAdd(a, b) == Rat(a.num * b.den + b.num * a.den, a.den * b.den)

RScale(a, n) == Rat(a.num * n, a.den)

RDivInt(a, n) == Rat(a.num, a.den * n)

RLess(a, b) == a.num * b.den < b.num * a.den

Min(a, b) == IF a < b THEN a ELSE b

----------------------------------------------------------------------------
\* Python helpers

\* Python values tagged with their type
None == [t |-> "None"]

PStr(x) == [t |-> "str", s |-> x]

ObjectId(h) == [t |-> "ObjectId", hex |-> h]

PFloat(r) == [t |-> "float", v |-> r]

\* bool(value)
Truthy(value) ==
    IF value.t = "None" THEN FALSE
    ELSE IF value.t = "str" THEN value.s # ""
    ELSE IF value.t = "float" THEN value.v.num # 0
    ELSE TRUE

\* d.get(key, default)
Get(d, key, default) == IF key \in DOMAIN d THEN d[key] ELSE default

\* {**d, **e}
DictUpdate(d, e) ==
    [x \in (DOMAIN d) \cup (DOMAIN e) |-> IF x \in DOMAIN e THEN e[x] ELSE d[x]]

\* seq[:n]
Take(seq, n) ==
    IF n >= 0 THEN SubSeq(seq, 1, Min(Len(seq), n))
    ELSE SubSeq(seq, 1, IF Len(seq) + n < 0 THEN 0 ELSE Len(seq) + n)

\* sorted(seq, key=lambda x: x[field], reverse=True): stable, records with
\* equal keys keep their order
RECURSIVE InsertDesc(_, _, _)
InsertDesc(sorted, x, field) ==
    IF sorted = <<>> THEN <<x>>
    ELSE IF RLess(Head(sorted)[field], x[field])
         THEN <<x>> \o sorted
         ELSE <<Head(sorted)>> \o InsertDesc(Tail(sorted), x, field)

\* mutant: a sort that is not stable, records with equal keys come out in
\* the reverse of their order
RECURSIVE SortedDescTiesReversed(_, _)
SortedDescTiesReversed(seq, field) ==
    IF seq = <<>> THEN <<>>
    ELSE InsertDesc(SortedDescTiesReversed(Tail(seq), field), Head(seq), field)

RECURSIVE SortedDesc(_, _)
SortedDesc(seq, field) ==
    IF seq = <<>> THEN <<>>
    ELSE InsertDesc(SortedDesc(SubSeq(seq, 1, Len(seq) - 1), field),
                    seq[Len(seq)], field)

----------------------------------------------------------------------------
\* The state of a component that has not been called

FusionIdle ==
    /\ vector_results = <<>>
    /\ text_results = <<>>
    /\ vector_weight = RZero
    /\ text_weight = RZero
    /\ combined_results = <<>>

NormalizeIdle ==
    /\ results = <<>>
    /\ processed_results = <<>>
    /\ normalized_again = <<>>

RerankIdle ==
    /\ _cross_encoder = "None"
    /\ query = <<>>
    /\ docs = <<>>
    /\ limit = 0
    /\ returned = <<>>
    /\ strategy = "none"
    /\ load_outcome = "none"
    /\ predict_outcome = "none"

SearchIdle ==
    /\ apply_reranking = FALSE
    /\ vector_outcome = "none"
    /\ text_outcome = "none"
    /\ raw_shape = "dict"
    /\ embedding = "none"
    /\ vector_stage = <<>>

ThreadsIdle ==
    /\ thread_pc = <<>>
    /\ thread_model = <<>>
    /\ _e5_model = 0
    /\ e5_loads = 0
    /\ reranker_calls = 0
    /\ load_attempts = 0
    /\ model_name = <<>>
    /\ loaded_model_name = ""
    /\ latest_model_name = ""

HeuristicIdle ==
    /\ doc_texts = <<>>
    /\ fallback_scores = <<>>

HeapIdle ==
    /\ heap = <<>>
    /\ entry_heap = <<>>
    /\ args = <<>>
    /\ result_list = 0
    /\ scores = <<>>

TasksIdle ==
    /\ need_embedding = {}
    /\ total_need_embedding = 0
    /\ articles_to_process = 0
    /\ processed = 0
    /\ failed = 0
    /\ article_ids = <<>>
    /\ batch_size = 0
    /\ idx = 0
    /\ counted = <<>>

----------------------------------------------------------------------------
\* normalize_search_results
\*
\* A raw record is [shape, fields]: shape "dict" is a dictionary, whose keys
\* are the fields; shape "object" is a model instance, whose attributes are
\* the fields.  A raw value is tagged with its Python type:
\*   [t |-> "ObjectId", hex |-> h]   [t |-> "str", s |-> text]
\*   [t |-> "float", v |-> rational] [t |-> "None"]   [t |-> "list"]

\* str(value)
PyStr(value) ==
    IF value.t = "ObjectId" THEN PStr(value.hex)
    ELSE IF value.t = "str" THEN value
    ELSE PStr("None")

\* float(value): the number, or the exception float() raises
PyFloat(value) ==
    IF value.t = "float" THEN [ok |-> TRUE, v |-> value.v]
    ELSE IF value.t = "str"
         THEN IF value.s = "0.5" THEN [ok |-> TRUE, v |-> Rat(1, 2)]
              ELSE [ok |-> FALSE, exc |-> "ValueError"]
         ELSE [ok |-> FALSE, exc |-> "TypeError"]

\* except (TypeError, ValueError)
ScoreExceptions == {"TypeError", "ValueError"}

\* try: float(value) * 100  except (TypeError, ValueError): 0
\* the score, or the exception the statement lets through
ScorePercent(value) ==
    LET f == PyFloat(value)
    IN  IF f.ok THEN [ok |-> TRUE, v |-> RScale(f.v, 100)]
        ELSE IF f.exc \in ScoreExceptions THEN [ok |-> TRUE, v |-> RZero]
        ELSE f

PyZero == PFloat(RZero)

\* the isinstance(result, dict) branch
NormalizeDict(fields) ==
    LET scored == DictUpdate(fields,
                      [score |-> ScorePercent(Get(fields, "score", PyZero)).v])
    IN  IF "_id" \in DOMAIN fields
        THEN DictUpdate(scored, [_id |-> PyStr(fields["_id"]),
                                 id  |-> PyStr(fields["_id"])])
        ELSE scored

\* getattr(result, name, None) of a display attribute; <<>> stands for None
DisplayAttr(fields, name) == Get(fields, name, <<>>)

\* the branch taken for a model instance
NormalizeObject(fields) ==
    LET strId == PyStr(Get(fields, "_id", Get(fields, "id", PStr(""))))
        idAttr == Get(fields, "id", strId)
    IN  [_id        |-> strId,
         title_en   |-> DisplayAttr(fields, "title_en"),
         title_it   |-> DisplayAttr(fields, "title_it"),
         content_en |-> DisplayAttr(fields, "content_en"),
         content_it |-> DisplayAttr(fields, "content_it"),
         sector     |-> DisplayAttr(fields, "sector"),
         source     |-> DisplayAttr(fields, "source"),
         date       |-> DisplayAttr(fields, "date"),
         url        |-> DisplayAttr(fields, "url"),
         id         |-> IF Truthy(idAttr) THEN idAttr ELSE strId,
         score      |-> ScorePercent(Get(fields, "score", PyZero)).v]

NormalizeOne(result) ==
    IF result.shape = "dict" THEN NormalizeDict(result.fields)
    ELSE NormalizeObject(result.fields)

\* mutant: the ranks are taken 0-based
AddRankZeroBased(items) ==
    [i \in 1..Len(items) |-> DictUpdate(items[i], [rank |-> i - 1])]

\* for i, item in enumerate(results, 1): item['rank'] = i
AddRank(items) ==
    [i \in 1..Len(items) |-> DictUpdate(items[i], [rank |-> i])]

\* the exceptions that leave the loop over the raw records
NormalizeRaises(raw) ==
    {ScorePercent(Get(raw[i].fields, "score", PyZero)).exc :
        i \in {j \in 1..Len(raw) :
                   ~ScorePercent(Get(raw[j].fields, "score", PyZero)).ok}}

normalize_search_results(raw) ==
    AddRank([i \in 1..Len(raw) |-> NormalizeOne(raw[i])])

----------------------------------------------------------------------------
\* The corpus: what the store holds for a document

Title(d) ==
    IF d = "a" THEN <<"E", "c", "o", " ", "i", "t">>
    ELSE IF d = "b" THEN <<"T", "u", "r">>
    ELSE <<"i", "t", ".", "e", "c", "o">>

Content(d) ==
    IF d = "a" THEN <<"e", "c", "o", " ", "e", "c", "o">>
    ELSE IF d = "b" THEN <<>>
    ELSE <<"o", "r", "o">>

CorpusFields(d) ==
    [title_it   |-> Title(d),
     content_it |-> Content(d),
     title_en   |-> <<>>,
     content_en |-> <<>>,
     sector     |-> "economy",
     source     |-> "ekapija",
     date       |-> "2025-01-01",
     url        |-> "https://example.org",
     status     |-> "PENDING"]

\* a record of raw_aggregate: a projected dictionary or a model instance
RawDict(d, score) ==
    [shape |-> "dict",
     fields |-> DictUpdate(CorpusFields(d), [_id |-> ObjectId(d), score |-> score])]

RawObject(d, score) ==
    [shape |-> "object",
     fields |-> DictUpdate(CorpusFields(d), [id |-> ObjectId(d), score |-> score])]

\* drop a key of a record
Without(d, key) == [x \in (DOMAIN d) \ {key} |-> d[x]]

----------------------------------------------------------------------------
\* Inputs of the normalizer

RawScores ==
    {PFloat(Rat(-1, 2)), PFloat(Rat(1, 2)), PFloat(Rat(3, 2)),
     None, PStr("n/a"), PStr("0.5"), [t |-> "list"]}

RawRecords ==
    LET scored == {RawDict("a", sc) : sc \in RawScores}
                      \cup {RawObject("b", sc) : sc \in RawScores}
        bare == {[shape |-> r.shape, fields |-> Without(r.fields, "score")] :
                    r \in {RawDict("a", None), RawObject("b", None)}}
        anonymous == {[shape |-> r.shape,
                       fields |-> Without(Without(r.fields, "_id"), "id")] :
                         r \in {RawDict("a", PFloat(Rat(1, 2))),
                                RawObject("b", PFloat(Rat(1, 2)))}}
    IN  scored \cup bare \cup anonymous

RawLists == UNION {[1..m -> RawRecords] : m \in 0..MaxRaw}

NormalizeInit ==
    /\ pc = "normalize"
    /\ raised = ""
    /\ results \in RawLists
    /\ processed_results = <<>>
    /\ normalized_again = <<>>
    /\ FusionIdle
    /\ RerankIdle
    /\ SearchIdle
    /\ ThreadsIdle
    /\ HeuristicIdle
    /\ HeapIdle
    /\ TasksIdle

\* one call normalize_search_results(results)
Normalize ==
    /\ pc = "normalize"
    /\ IF NormalizeRaises(results) # {}
       THEN /\ raised' \in NormalizeRaises(results)
            /\ pc' = "raised"
            /\ UNCHANGED processed_results
       ELSE /\ processed_results' = normalize_search_results(results)
            /\ pc' = "normalized"
            /\ UNCHANGED raised
    /\ UNCHANGED <<results, normalized_again>>
    /\ UNCHANGED <<fusionVars, rerankVars, searchVars, threadVars,
                   heuristicVars, heapVars, taskVars>>

\* a normalized record handed to normalize_search_results again: it is a
\* dictionary, and its score is the float the first call stored
Renormalizable(item) ==
    [shape |-> "dict", fields |-> DictUpdate(item, [score |-> PFloat(item["score"])])]

\* one call normalize_search_results(processed_results) on the list the
\* first call returned
NormalizeAgain ==
    /\ pc = "normalized"
    /\ LET raw == [i \in 1..Len(processed_results) |->
                      Renormalizable(processed_results[i])]
       IN  IF NormalizeRaises(raw) # {}
           THEN /\ raised' \in NormalizeRaises(raw)
                /\ pc' = "raised_again"
                /\ UNCHANGED normalized_again
           ELSE /\ normalized_again' = normalize_search_results(raw)
                /\ pc' = "normalized_again"
                /\ UNCHANGED raised
    /\ UNCHANGED <<results, processed_results>>
    /\ UNCHANGED <<fusionVars, rerankVars, searchVars, threadVars,
                   heuristicVars, heapVars, taskVars>>

NormalizeNext == Normalize \/ NormalizeAgain

SpecNormalize == NormalizeInit /\ [][NormalizeNext]_vars

\* the raw score of the record, None when it has none
RawScore(result) == Get(result.fields, "score", None)

\* the raw score is a number
IsNumber(value) == value.t = "float"

\* C10: normalize_search_results never raises on a bad score; every output
\* score lies in [0, 100], and a missing, None or non-numeric score becomes 0.
C10_ScoreIsPercentage ==
    pc \in {"normalized", "raised"} =>
        /\ pc = "normalized"
        /\ Len(processed_results) = Len(results)
        /\ \A i \in 1..Len(processed_results) :
              /\ ~RLess(processed_results[i]["score"], Rat(0, 1))
              /\ ~RLess(Rat(100, 1), processed_results[i]["score"])
              /\ ~IsNumber(RawScore(results[i])) /\ RawScore(results[i]) # PStr("0.5")
                     => processed_results[i]["score"] = Rat(0, 1)

\* the display fields every normalized record is to carry
DisplayFields ==
    {"title_en", "title_it", "content_en", "content_it", "sector", "source", "url",
     "status"}

\* C11: whatever the shape of the raw record (dictionary or model instance),
\* the normalized record has a string identifier and the display fields
\* title and content per language, sector, source, url and status.
C11_UniformShape ==
    pc = "normalized" =>
        \A i \in 1..Len(processed_results) :
            /\ "_id" \in DOMAIN processed_results[i]
            /\ processed_results[i]["_id"].t = "str"
            /\ DisplayFields \subseteq DOMAIN processed_results[i]

\* C12: normalizing a normalized list changes only the scores: the records,
\* their count, order, identifiers, display fields and ranks are the same,
\* and two records compare by score after as they did before.
C12_Idempotent ==
    /\ pc # "raised_again"
    /\ pc = "normalized_again" =>
          /\ Len(normalized_again) = Len(processed_results)
          /\ \A i \in 1..Len(normalized_again) :
                /\ DOMAIN normalized_again[i] = DOMAIN processed_results[i]
                /\ \A f \in DOMAIN processed_results[i] \ {"score"} :
                      normalized_again[i][f] = processed_results[i][f]
          /\ \A i, j \in 1..Len(normalized_again) :
                RLess(normalized_again[i]["score"], normalized_again[j]["score"])
                    <=> RLess(processed_results[i]["score"], processed_results[j]["score"])

\* C23: normalize_search_results returns one record per input record, in
\* input order, and the record at output position i (1-based) has rank i.
C23_OnePerInputInOrder ==
    pc = "normalized" =>
        /\ Len(processed_results) = Len(results)
        /\ \A i \in 1..Len(processed_results) :
              /\ processed_results[i]["rank"] = i
              /\ processed_results[i]["title_it"] = results[i].fields["title_it"]
              /\ processed_results[i]["score"]
                     = ScorePercent(Get(results[i].fields, "score", PyZero)).v

\* two records that differ in title and in score have been normalized
C23_Witness ==
    /\ pc = "normalized"
    /\ Len(results) = 2
    /\ Len(processed_results) = 2
    /\ results[1].fields["title_it"] # results[2].fields["title_it"]
    /\ processed_results[1]["score"] # processed_results[2]["score"]

----------------------------------------------------------------------------
\* Text: a Python str of the reranker is a sequence of characters

\* c.lower()
Lower(c) ==
    IF c = "E" THEN "e"
    ELSE IF c = "T" THEN "t"
    ELSE IF c = "N" THEN "n"
    ELSE c

\* text.lower()
LowerText(text) == [i \in 1..Len(text) |-> Lower(text[i])]

\* \s of the regular expression, the separators of split()
IsSpace(c) == c \in {" ", "\n"}

\* [^\w\s] of the regular expression: punctuation
IsPunctuation(c) == c \in {".", ",", "'"}

\* re.sub(r'[^\w\s]', ' ', text)
StripPunctuation(text) ==
    [i \in 1..Len(text) |-> IF IsPunctuation(text[i]) THEN " " ELSE text[i]]

\* text.split(): the maximal runs of characters that are not whitespace
Split(text) ==
    LET IsStart(i) == ~IsSpace(text[i]) /\ (i = 1 \/ IsSpace(text[i - 1]))
        starts == SelectSeq([i \in 1..Len(text) |-> i], IsStart)
        EndOf(i) == CHOOSE j \in i..Len(text) :
                        /\ j = Len(text) \/ IsSpace(text[j + 1])
                        /\ \A c \in i..j : ~IsSpace(text[c])
    IN  [n \in 1..Len(starts) |-> SubSeq(text, starts[n], EndOf(starts[n]))]

\* Reranker._tokenize
Tokenize(text) == Split(StripPunctuation(LowerText(text)))

\* ' '.join(tokens)
RECURSIVE Join(_)
Join(tokens) ==
    IF tokens = <<>> THEN <<>>
    ELSE IF Len(tokens) = 1 THEN tokens[1]
    ELSE tokens[1] \o <<" ">> \o Join(Tail(tokens))

\* the 0-based offsets at which needle occurs in text
Occurrences(text, needle) ==
    {i \in 0..(Len(text) - Len(needle)) :
        SubSeq(text, i + 1, i + Len(needle)) = needle}

\* needle in text
Contains(text, needle) == Occurrences(text, needle) # {}

\* text.find(needle), for a needle that occurs
Find(text, needle) ==
    CHOOSE i \in Occurrences(text, needle) : \A j \in Occurrences(text, needle) : i <= j

\* tokens.count(token)
Count(tokens, token) == Cardinality({i \in 1..Len(tokens) : tokens[i] = token})

RSub(a, b) == Rat(a.num * b.den - b.num * a.den, a.den * b.den)

RMax(a, b) == IF RLess(a, b) THEN b ELSE a

RMin(a, b) == IF RLess(b, a) THEN b ELSE a

\* token_match_score after the loop over the first n query tokens
RECURSIVE TokenMatchScore(_, _, _)
TokenMatchScore(query_tokens, doc_tokens, n) ==
    IF n = 0 THEN RZero
    ELSE LET rest == TokenMatchScore(query_tokens, doc_tokens, n - 1)
             c == Count(doc_tokens, query_tokens[n])
         IN  IF c > 0 THEN RAdd(rest, Rat(c * 2, 10)) ELSE rest

\* total_matches: the query tokens that occur among the document tokens
TotalMatches(query_tokens, doc_tokens) ==
    Cardinality({i \in 1..Len(query_tokens) : Count(doc_tokens, query_tokens[i]) > 0})

\* Reranker._calculate_fallback_score
CalculateFallbackScore(query_tokens, doc_text) ==
    LET doc_text_lower == LowerText(doc_text)
        query_phrase == Join(query_tokens)
        exact == Contains(doc_text_lower, query_phrase)
        exact_match_score == IF exact THEN Rat(10, 1) ELSE RZero
        position_score ==
            IF exact
            THEN RMax(RZero, RSub(Rat(5, 1), Rat(Find(doc_text_lower, query_phrase), 100)))
            ELSE RZero
        doc_tokens == Tokenize(doc_text)
        frequency == TokenMatchScore(query_tokens, doc_tokens, Len(query_tokens))
        token_match_score ==
            IF query_tokens # <<>>
            THEN RAdd(frequency,
                      Rat(5 * TotalMatches(query_tokens, doc_tokens), Len(query_tokens)))
            ELSE frequency
        final_score == RAdd(RAdd(exact_match_score, token_match_score), position_score)
    IN  RMin(Rat(1, 1), Rat(final_score.num, final_score.den * 20))

----------------------------------------------------------------------------
\* The token matching on its own: the fallback of Reranker.rerank scores the
\* candidate texts of a query with _calculate_fallback_score

\* the texts of at most n characters
ShortTexts(n) == UNION {[1..m -> {"e", "t", " "}] : m \in 0..n}

\* word repeated n times
RECURSIVE Repeat(_, _)
Repeat(word, n) == IF n = 0 THEN <<>> ELSE word \o Repeat(word, n - 1)

\* "t t ... e e ...": each token n times, never "e t" in this order
TokensRepeated(n) == Repeat(<<"t", " ">>, n) \o Repeat(<<"e", " ">>, n)

\* candidate texts: the short ones, texts that repeat the tokens, a text
\* with the phrase inside longer words, and the phrase in capitals and with
\* punctuation
CandidateTexts ==
    ShortTexts(MaxText)
        \cup {TokensRepeated(n) : n \in 1..MaxRepeat}
        \cup {<<"e", "e", " ", "t", "t">>, <<"E", " ", "T">>, <<"e", ".", "t">>}

HeuristicQueries == {<<"e", " ", "t">>, <<"E">>}

HeuristicInit ==
    /\ pc = "heuristic"
    /\ raised = ""
    /\ query \in HeuristicQueries
    /\ doc_texts \in [1..2 -> CandidateTexts]
    /\ fallback_scores = <<>>
    /\ _cross_encoder = "None"
    /\ docs = <<>>
    /\ limit = 0
    /\ returned = <<>>
    /\ strategy = "none"
    /\ load_outcome = "none"
    /\ predict_outcome = "none"
    /\ FusionIdle
    /\ NormalizeIdle
    /\ SearchIdle
    /\ ThreadsIdle
    /\ HeapIdle
    /\ TasksIdle

\* query_tokens = self._tokenize(query)
\* for text in document_texts:
\*     scores.append(self._calculate_fallback_score(query_tokens, text))
ScoreTexts ==
    /\ pc = "heuristic"
    /\ fallback_scores' =
          [i \in 1..Len(doc_texts) |->
              CalculateFallbackScore(Tokenize(query), doc_texts[i])]
    /\ pc' = "scored"
    /\ UNCHANGED <<raised, doc_texts, fusionVars, normalizeVars, rerankVars, searchVars,
                   threadVars, heapVars, taskVars>>

HeuristicNext == ScoreTexts

SpecHeuristic == HeuristicInit /\ [][HeuristicNext]_vars

\* the text contains the exact phrase of the query
HasPhrase(text) == Contains(LowerText(text), Join(Tokenize(query)))

\* C19: for a fixed query every text that contains the exact query phrase
\* scores at least as high as every text that does not, whatever their
\* phrase position, token coverage and token frequencies.
C19_PhraseOutweighs ==
    pc = "scored" =>
        \A i, j \in 1..Len(doc_texts) :
            HasPhrase(doc_texts[i]) /\ ~HasPhrase(doc_texts[j])
                => ~RLess(fallback_scores[i], fallback_scores[j])

\* the two texts differ only in case or punctuation, and so have the same
\* token sequence
SameButCaseAndPunctuation(a, b) ==
    /\ StripPunctuation(LowerText(a)) = StripPunctuation(LowerText(b))
    /\ Tokenize(a) = Tokenize(b)

\* C20: the score is a function of the tokens of the query and the tokens of
\* the text: two texts that differ only in case or punctuation, and so have
\* the same token sequence, get the same score.
C20_FunctionOfTokens ==
    pc = "scored" =>
        \A i, j \in 1..Len(doc_texts) :
            SameButCaseAndPunctuation(doc_texts[i], doc_texts[j])
                => fallback_scores[i] = fallback_scores[j]

----------------------------------------------------------------------------
\* Reranker

\* what the loaders of _load_model do: CrossEncoder(...) succeeds; it raises
\* and the transformers loaders succeed; both raise
LoadOutcomes == {"sentence_transformers", "transformers", "unavailable"}

\* mutant: the failure of the transformers loaders is not caught
LoadModelUncaught(env) ==
    IF env = "sentence_transformers" THEN [cross_encoder |-> "CrossEncoder", raised |-> ""]
    ELSE IF env = "transformers" THEN [cross_encoder |-> "dict", raised |-> ""]
    ELSE [cross_encoder |-> "None", raised |-> "Exception"]

\* Reranker._load_model: the value left in Reranker._cross_encoder and the
\* exception that leaves the method
LoadModel(env) ==
    IF env = "sentence_transformers" THEN [cross_encoder |-> "CrossEncoder", raised |-> ""]
    ELSE IF env = "transformers" THEN [cross_encoder |-> "dict", raised |-> ""]
    ELSE [cross_encoder |-> "None", raised |-> ""]

\* Reranker.__init__: loads only while the shared model is None
NewReranker(cross_encoder, env) ==
    IF cross_encoder = "None" THEN LoadModel(env)
    ELSE [cross_encoder |-> cross_encoder, raised |-> ""]

\* Reranker.is_available
IsAvailable(cross_encoder) == cross_encoder # "None"

\* a or b or c or d over texts, the empty text being falsy
FirstTruthy(texts) ==
    IF \E i \in 1..Len(texts) : texts[i] # <<>>
    THEN texts[CHOOSE i \in 1..Len(texts) :
                   texts[i] # <<>> /\ \A j \in 1..(i - 1) : texts[j] = <<>>]
    ELSE <<>>

NoTitle == <<"N", "o", " ", "t", "i", "t", "l", "e">>

\* text = f"{title}\n{content}" with the content cut to 500 characters
DocumentText(doc, title_field, content_field) ==
    LET title == FirstTruthy(<<Get(doc, title_field, <<>>), Get(doc, "title_en", <<>>),
                               Get(doc, "title_rs", <<>>), NoTitle>>)
        content == FirstTruthy(<<Get(doc, content_field, <<>>),
                                 Get(doc, "content_en", <<>>),
                                 Get(doc, "content_rs", <<>>)>>)
    IN  title \o <<"\n">> \o Take(content, 500)

\* the scores of the first strategy that produces some, and its name: the
\* CrossEncoder when the shared model has predict, the transformers pair when
\* no scores yet and the shared model is the dict, the token matching when
\* no scores yet.  ml is what the model does: it raises or returns scores.
Scores(cross_encoder, q, texts, ml) ==
    IF cross_encoder = "CrossEncoder" /\ ml.kind = "scores"
    THEN [strategy |-> "cross_encoder", scores |-> ml.scores]
    ELSE IF cross_encoder = "dict" /\ ml.kind = "scores"
    THEN [strategy |-> "transformers", scores |-> ml.scores]
    ELSE [strategy |-> "heuristic",
          scores |-> [i \in 1..Len(texts) |-> CalculateFallbackScore(Tokenize(q), texts[i])]]

\* for i, doc in enumerate(result_docs, 1): doc['rank'] = i
AddRerankRank(result_docs) ==
    [i \in 1..Len(result_docs) |-> DictUpdate(result_docs[i], [rank |-> i])]

\* Reranker.rerank
Rerank(cross_encoder, q, ds, lim, ml) ==
    IF ds = <<>> THEN [returned |-> <<>>, strategy |-> "none", raised |-> ""]
    ELSE LET document_texts ==
                 [i \in 1..Len(ds) |-> DocumentText(ds[i], "title_it", "content_it")]
             scored == Scores(cross_encoder, q, document_texts, ml)
             result_docs ==
                 [i \in 1..Len(scored.scores) |->
                     DictUpdate(ds[i], [rerank_score |-> scored.scores[i]])]
         IN  [returned |-> Take(AddRerankRank(SortedDesc(result_docs, "rerank_score")), lim),
              strategy |-> scored.strategy,
              raised   |-> ""]

\* rerank_search_results: the new shared model and the outcome of the call
RerankSearchResults(cross_encoder, q, ds, lim, env, ml) ==
    LET reranker == NewReranker(cross_encoder, env)
    IN  IF reranker.raised # ""
        THEN [cross_encoder |-> reranker.cross_encoder, returned |-> <<>>,
              strategy |-> "none", raised |-> reranker.raised]
        ELSE IF ~IsAvailable(reranker.cross_encoder)
        THEN [cross_encoder |-> reranker.cross_encoder, returned |-> Take(ds, lim),
              strategy |-> "none", raised |-> ""]
        ELSE [cross_encoder |-> reranker.cross_encoder]
                 @@ Rerank(reranker.cross_encoder, q, ds, lim, ml)

----------------------------------------------------------------------------
\* normalize_hybrid_scores (Reciprocal Rank Fusion)

\* k = 60, the RRF constant
k == 60

\* mutant: the 'id' key is not consulted
DocIdUnderscoreOnly(result) == Get(result, "_id", None)

\* doc_id = result.get('_id') or result.get('id')
DocId(result) ==
    IF Truthy(Get(result, "_id", None)) THEN result["_id"]
    ELSE Get(result, "id", None)

\* result_map is an insertion-ordered dict: a sequence of [key, val] entries
HasKey(map, key) == \E i \in 1..Len(map) : map[i].key = key

Lookup(map, key) == map[CHOOSE i \in 1..Len(map) : map[i].key = key].val

\* mutant: every assignment appends an entry
MapSetAppending(map, key, val) == Append(map, [key |-> key, val |-> val])

\* result_map[key] = val: an existing key keeps its place, a new one is appended
MapSet(map, key, val) ==
    IF HasKey(map, key)
    THEN [i \in 1..Len(map) |->
             IF map[i].key = key THEN [key |-> key, val |-> val] ELSE map[i]]
    ELSE Append(map, [key |-> key, val |-> val])

\* result_map.values()
Values(map) == [i \in 1..Len(map) |-> map[i].val]

\* the entry written for a record of the vector list
VectorEntry(result, rank) ==
    DictUpdate(result, [vector_rank  |-> rank,
                        vector_score |-> Get(result, "score", RZero),
                        text_rank    |-> 0,
                        text_score   |-> RZero,
                        search_type  |-> "vector"])

\* the entry written for a record that is in the text list only
TextEntry(result, rank) ==
    DictUpdate(result, [vector_rank  |-> 0,
                        vector_score |-> RZero,
                        text_rank    |-> rank,
                        text_score   |-> Get(result, "score", RZero),
                        search_type  |-> "text"])

\* the update of an entry whose document is in both lists
HybridEntry(entry, result, rank) ==
    [entry EXCEPT !["text_rank"]   = rank,
                  !["text_score"]  = Get(result, "score", RZero),
                  !["search_type"] = "hybrid"]

\* for rank, result in enumerate(vector_results, 1)
RECURSIVE VectorLoop(_, _, _)
VectorLoop(map, hits, rank) ==
    IF rank > Len(hits) THEN map
    ELSE LET result == hits[rank]
             doc_id == DocId(result)
         IN  IF ~Truthy(doc_id)
             THEN VectorLoop(map, hits, rank + 1)
             ELSE VectorLoop(MapSet(map, doc_id, VectorEntry(result, rank)),
                             hits, rank + 1)

\* for rank, result in enumerate(text_results, 1)
RECURSIVE TextLoop(_, _, _)
TextLoop(map, hits, rank) ==
    IF rank > Len(hits) THEN map
    ELSE LET result == hits[rank]
             doc_id == DocId(result)
         IN  IF ~Truthy(doc_id)
             THEN TextLoop(map, hits, rank + 1)
             ELSE IF HasKey(map, doc_id)
                  THEN TextLoop(MapSet(map, doc_id,
                                       HybridEntry(Lookup(map, doc_id), result, rank)),
                                hits, rank + 1)
                  ELSE TextLoop(MapSet(map, doc_id, TextEntry(result, rank)),
                                hits, rank + 1)

\* mutant: the ranks are taken 0-based
RRFScoreZeroBased(doc, vw, tw) ==
    RAdd(IF doc["vector_rank"] # 0 THEN RDivInt(vw, k + doc["vector_rank"] - 1) ELSE RZero,
         IF doc["text_rank"] # 0 THEN RDivInt(tw, k + doc["text_rank"] - 1) ELSE RZero)

\* rrf_score of one entry, before the scaling
RRFScore(doc, vw, tw) ==
    RAdd(IF doc["vector_rank"] # 0 THEN RDivInt(vw, k + doc["vector_rank"]) ELSE RZero,
         IF doc["text_rank"] # 0 THEN RDivInt(tw, k + doc["text_rank"]) ELSE RZero)

\* doc['hybrid_score'] = rrf_score * 100; doc['score'] = doc['hybrid_score']
Scored(doc, vw, tw) ==
    LET hybrid_score == RScale(RRFScore(doc, vw, tw), 100)
    IN  DictUpdate(doc, [hybrid_score |-> hybrid_score, score |-> hybrid_score])

\* for rank, result in enumerate(combined_results, 1): result['rank'] = rank
AddFinalRank(combined) ==
    [i \in 1..Len(combined) |-> DictUpdate(combined[i], [rank |-> i])]

normalize_hybrid_scores(vr, tr, vw, tw) ==
    LET result_map == TextLoop(VectorLoop(<<>>, vr, 1), tr, 1)
        scored     == [i \in 1..Len(result_map) |-> Scored(Values(result_map)[i], vw, tw)]
    IN  AddFinalRank(SortedDesc(scored, "hybrid_score"))

----------------------------------------------------------------------------
\* Inputs of the fusion: lists of normalized records.  A record of a list
\* carries the score and the rank normalize_search_results gave it.

DocA == [_id |-> PStr("a"), id |-> PStr("a"), source |-> "ekapija"]
DocB == [_id |-> PStr("b"), id |-> PStr("b"), source |-> "biznisrs"]
DocC == [id |-> PStr("c"), source |-> "novaekonomija"]
DocNoId == [source |-> "ekapija"]

SampleDocs == {DocA, DocB, DocC, DocNoId}

\* the record at position p of a retriever's list: scores fall with the rank
InputRecord(doc, p) ==
    DictUpdate(doc, [score |-> Rat(100 - 10 * p, 1), rank |-> p])

RankedLists ==
    UNION {{[p \in 1..m |-> InputRecord(f[p], p)] : f \in [1..m -> SampleDocs]}
           : m \in 0..MaxLen}

\* (vector_weight, text_weight): the defaults of normalize_hybrid_scores and
\* of perform_hybrid_search
WeightPairs == {<<Rat(5, 10), Rat(5, 10)>>, <<Rat(6, 10), Rat(4, 10)>>}

FusionInit ==
    /\ pc = "fusion"
    /\ vector_results \in RankedLists
    /\ text_results \in RankedLists
    /\ \E w \in WeightPairs : vector_weight = w[1] /\ text_weight = w[2]
    /\ combined_results = <<>>
    /\ raised = ""
    /\ NormalizeIdle
    /\ RerankIdle
    /\ SearchIdle
    /\ ThreadsIdle
    /\ HeuristicIdle
    /\ HeapIdle
    /\ TasksIdle

\* one call normalize_hybrid_scores(vector_results, text_results, weights)
Fuse ==
    /\ pc = "fusion"
    /\ combined_results' = normalize_hybrid_scores(vector_results, text_results,
                                                   vector_weight, text_weight)
    /\ pc' = "fused"
    /\ UNCHANGED <<vector_results, text_results, vector_weight, text_weight>>
    /\ UNCHANGED <<raised, normalizeVars, rerankVars, searchVars, threadVars,
                   heuristicVars, heapVars, taskVars>>

FusionNext == Fuse

SpecFusion == FusionInit /\ [][FusionNext]_vars

----------------------------------------------------------------------------
\* Properties of the fusion

\* the record has an identifier the fusion can key it by
HasId(r) ==
    \/ "_id" \in DOMAIN r /\ r["_id"] \notin {None, PStr("")}
    \/ "id" \in DOMAIN r /\ r["id"] \notin {None, PStr("")}

IdOf(r) ==
    IF "_id" \in DOMAIN r /\ r["_id"] \notin {None, PStr("")} THEN r["_id"]
    ELSE r["id"]

IdsOf(list) == {IdOf(list[i]) : i \in {j \in 1..Len(list) : HasId(list[j])}}

\* positions of the document in a list
Positions(list, id) == {i \in 1..Len(list) : HasId(list[i]) /\ IdOf(list[i]) = id}

LastPosition(list, id) ==
    CHOOSE i \in Positions(list, id) : \A j \in Positions(list, id) : j <= i

FirstPosition(list, id) ==
    CHOOSE i \in Positions(list, id) : \A j \in Positions(list, id) : i <= j

\* weight / (K + rank) of the document in one list, zero when the list does
\* not contain it (the position used for a repeated document is its last)
Contribution(list, id, weight) ==
    IF Positions(list, id) = {} THEN [num |-> 0, den |-> 1]
    ELSE Rat(weight.num, weight.den * (60 + LastPosition(list, id)))

ExpectedFused(id) ==
    LET v == Contribution(vector_results, id, vector_weight)
        t == Contribution(text_results, id, text_weight)
    IN  Rat(100 * (v.num * t.den + t.num * v.den), v.den * t.den)

\* C4: every document of either list is in the fused list with the score
\* 100 * (sum over the lists containing it of weight / (60 + rank)), the
\* rank being its 1-based position in that list; a list that does not
\* contain the document adds nothing.
C4_RRFFormula ==
    pc = "fused" =>
        /\ \A id \in IdsOf(vector_results) \cup IdsOf(text_results) :
              \E i \in 1..Len(combined_results) :
                  /\ IdOf(combined_results[i]) = id
                  /\ combined_results[i]["hybrid_score"] = ExpectedFused(id)
        /\ \A i \in 1..Len(combined_results) :
              /\ HasId(combined_results[i])
              /\ combined_results[i]["hybrid_score"]
                     = ExpectedFused(IdOf(combined_results[i]))
              /\ combined_results[i]["score"] = combined_results[i]["hybrid_score"]

\* a document in both lists, one in the vector list only and one in the
\* text list only have been fused
C4_Witness ==
    /\ pc = "fused"
    /\ IdsOf(vector_results) \cap IdsOf(text_results) # {}
    /\ IdsOf(vector_results) \ IdsOf(text_results) # {}
    /\ IdsOf(text_results) \ IdsOf(vector_results) # {}
    /\ Len(combined_results) = 3

\* first position of the document in the vector list followed by the text list
FirstSeen(id) == FirstPosition(vector_results \o text_results, id)

\* C5: the fused list is in non-increasing score order, and documents with
\* the same fused score are in first-seen order (vector list, then text list).
C5_SortedStable ==
    pc = "fused" =>
        \A i, j \in 1..Len(combined_results) :
            i < j =>
                /\ ~RLess(combined_results[i]["hybrid_score"],
                          combined_results[j]["hybrid_score"])
                /\ combined_results[i]["hybrid_score"]
                       = combined_results[j]["hybrid_score"]
                   => FirstSeen(IdOf(combined_results[i]))
                          < FirstSeen(IdOf(combined_results[j]))

\* two documents tie and a later-seen document with a higher score has
\* overtaken an earlier one
C5_Witness ==
    /\ pc = "fused"
    /\ \E i, j \in 1..Len(combined_results) :
          /\ i < j
          /\ combined_results[i]["hybrid_score"] = combined_results[j]["hybrid_score"]
    /\ \E i, j \in 1..Len(combined_results) :
          /\ i < j
          /\ RLess(combined_results[j]["hybrid_score"],
                   combined_results[i]["hybrid_score"])
          /\ FirstSeen(IdOf(combined_results[j])) < FirstSeen(IdOf(combined_results[i]))

\* the fields a record had before the fusion
SameDocument(out, in, scoreField) ==
    /\ DOMAIN in \subseteq DOMAIN out
    /\ \A f \in DOMAIN in \ {"score", "rank"} : out[f] = in[f]
    /\ out[scoreField] = in["score"]

\* the fused list is the list L, record for record
ReproducesList(L, scoreField) ==
    /\ Len(combined_results) = Len(L)
    /\ \A i \in 1..Len(L) : SameDocument(combined_results[i], L[i], scoreField)

\* C6 as stated: fusing any list L with an empty list returns one record per
\* record of L in L's order.
C6_OneEmptyListAnyInput ==
    pc = "fused" =>
        /\ text_results = <<>> => ReproducesList(vector_results, "vector_score")
        /\ vector_results = <<>> => ReproducesList(text_results, "text_score")

\* every record of L has an identifier and no two records share one
DistinctIds(L) ==
    /\ \A i \in 1..Len(L) : HasId(L[i])
    /\ \A i, j \in 1..Len(L) : i # j => IdOf(L[i]) # IdOf(L[j])

\* C6 amended: fusing a list L whose records carry distinct non-empty
\* identifiers with an empty list returns one record per record of L in L's
\* order.
C6_OneEmptyList ==
    pc = "fused" =>
        /\ text_results = <<>> /\ DistinctIds(vector_results)
               => ReproducesList(vector_results, "vector_score")
        /\ vector_results = <<>> /\ DistinctIds(text_results)
               => ReproducesList(text_results, "text_score")

\* a list of three identified documents has been fused with the empty list
C6_Witness ==
    /\ pc = "fused"
    /\ \/ text_results = <<>> /\ DistinctIds(vector_results) /\ Len(vector_results) = 3
       \/ vector_results = <<>> /\ DistinctIds(text_results) /\ Len(text_results) = 3
    /\ Len(combined_results) = 3

\* the document of the fused record is in the list
InList(list, r) == IdOf(r) \in IdsOf(list)

\* C24: the provenance of every fused record matches the lists its document
\* is in: search_type is 'hybrid' exactly when it is in both lists, with
\* vector_rank and text_rank set; 'vector' exactly when it is in the vector
\* list only, with text_rank unset; 'text' exactly when it is in the text
\* list only, with vector_rank unset.
C24_Provenance ==
    pc = "fused" =>
        \A i \in 1..Len(combined_results) :
            LET r == combined_results[i]
            IN  /\ r["search_type"] = "hybrid"
                       <=> InList(vector_results, r) /\ InList(text_results, r)
                /\ r["search_type"] = "vector"
                       <=> InList(vector_results, r) /\ ~InList(text_results, r)
                /\ r["search_type"] = "text"
                       <=> ~InList(vector_results, r) /\ InList(text_results, r)
                /\ r["vector_rank"] # 0 <=> InList(vector_results, r)
                /\ r["text_rank"] # 0 <=> InList(text_results, r)

\* C26: no identifier is in the fused list twice, and the identifiers of the
\* fused list are those of the vector list and of the text list together.
C26_NoDuplicateNoLoss ==
    pc = "fused" =>
        /\ \A i, j \in 1..Len(combined_results) :
              i # j => IdOf(combined_results[i]) # IdOf(combined_results[j])
        /\ \A i \in 1..Len(combined_results) : HasId(combined_results[i])
        /\ IdsOf(combined_results) = IdsOf(vector_results) \cup IdsOf(text_results)

\* a document in both lists and a document twice in one list have been
\* fused with a third document
C26_Witness ==
    /\ pc = "fused"
    /\ IdsOf(vector_results) \cap IdsOf(text_results) # {}
    /\ \E id \in IdsOf(vector_results) \cup IdsOf(text_results) :
          Cardinality(Positions(vector_results, id)) > 1
              \/ Cardinality(Positions(text_results, id)) > 1
    /\ Len(combined_results) >= 2

----------------------------------------------------------------------------
\* The reranker in one process: instances are constructed and asked to
\* rerank, Reranker._cross_encoder is shared by all of them

\* a candidate as the reranker's test passes it
Candidate(d) == [title_it |-> Title(d), content_it |-> Content(d)]

CandidateLists == UNION {[1..m -> {Candidate(d) : d \in {"a", "b", "c"}}] : m \in 0..MaxDocs}

Queries == {<<"e", "c", "o">>, <<"E", "c", "o", " ", "i", "t">>}

\* what the loaded model does with n texts: it raises, or it returns n
\* scores that rise with the position, fall with it, or are all the same
MLOutcomes(n) ==
    {[kind |-> "raise"],
     [kind |-> "scores", scores |-> [i \in 1..n |-> Rat(i - 3, 2)]],
     [kind |-> "scores", scores |-> [i \in 1..n |-> Rat(5 - i, 2)]],
     [kind |-> "scores", scores |-> [i \in 1..n |-> Rat(1, 2)]]}

\* the process has loaded no model; the query, the candidates and the limit
\* of its calls are drawn here
RerankInit ==
    /\ pc = "idle"
    /\ raised = ""
    /\ _cross_encoder = "None"
    /\ query \in Queries
    /\ docs \in CandidateLists
    /\ limit \in 1..MaxLimit
    /\ returned = <<>>
    /\ strategy = "none"
    /\ load_outcome = "none"
    /\ predict_outcome = "none"
    /\ FusionIdle
    /\ NormalizeIdle
    /\ SearchIdle
    /\ ThreadsIdle
    /\ HeuristicIdle
    /\ HeapIdle
    /\ TasksIdle

\* what the model did in a call: nothing when no ML strategy ran
PredictOutcome(cross_encoder, ds, ml) ==
    IF cross_encoder = "None" \/ ds = <<>> THEN "none" ELSE ml.kind

\* reranker = Reranker(model_name)
Construct ==
    \E env \in LoadOutcomes :
        LET reranker == NewReranker(_cross_encoder, env)
        IN  /\ _cross_encoder' = reranker.cross_encoder
            /\ raised' = reranker.raised
            /\ load_outcome' = IF _cross_encoder = "None" THEN env ELSE "none"
            /\ pc' = "Reranker"
            /\ returned' = <<>>
            /\ strategy' = "none"
            /\ predict_outcome' = "none"
            /\ UNCHANGED <<query, docs, limit, fusionVars, normalizeVars, searchVars,
                           threadVars, heuristicVars, heapVars, taskVars>>

\* reranker.rerank(query, docs, limit=limit) on an instance constructed before
CallRerank ==
    /\ pc # "idle"
    /\ \E ml \in MLOutcomes(Len(docs)) :
          LET call == Rerank(_cross_encoder, query, docs, limit, ml)
          IN  /\ returned' = call.returned
              /\ strategy' = call.strategy
              /\ raised' = call.raised
              /\ load_outcome' = "none"
              /\ predict_outcome' = PredictOutcome(_cross_encoder, docs, ml)
              /\ pc' = "rerank"
              /\ UNCHANGED <<_cross_encoder, query, docs, limit, fusionVars,
                             normalizeVars, searchVars, threadVars,
                             heuristicVars, heapVars, taskVars>>

\* rerank_search_results(query, docs, limit)
CallRerankSearchResults ==
    \E env \in LoadOutcomes, ml \in MLOutcomes(Len(docs)) :
        LET call == RerankSearchResults(_cross_encoder, query, docs, limit, env, ml)
        IN  /\ _cross_encoder' = call.cross_encoder
            /\ returned' = call.returned
            /\ strategy' = call.strategy
            /\ raised' = call.raised
            /\ load_outcome' = IF _cross_encoder = "None" THEN env ELSE "none"
            /\ predict_outcome' = PredictOutcome(call.cross_encoder, docs, ml)
            /\ pc' = "rerank_search_results"
            /\ UNCHANGED <<query, docs, limit, fusionVars, normalizeVars, searchVars,
                           threadVars, heuristicVars, heapVars, taskVars>>

RerankNext == Construct \/ CallRerank \/ CallRerankSearchResults

SpecRerank == RerankInit /\ [][RerankNext]_vars

\* C7: whichever strategy is used, the entry point returns min(limit, n)
\* records, each with a rerank_score and a rank, the ranks being 1..N.
C7_CompleteRanking ==
    pc = "rerank_search_results" =>
        /\ raised = ""
        /\ Len(returned) = Min(limit, Len(docs))
        /\ \A i \in 1..Len(returned) :
              /\ "rerank_score" \in DOMAIN returned[i]
              /\ "rank" \in DOMAIN returned[i]
        /\ \A i \in 1..Len(returned) : "rank" \in DOMAIN returned[i] => returned[i]["rank"] = i

\* C8: the CrossEncoder scores when it is usable, the transformers pair only
\* when the CrossEncoder is unavailable, and the token matching whenever no
\* ML backend was loaded or the ML path failed: the candidates of a call
\* are always scored by some strategy.
C8_FallbackOrder ==
    pc = "rerank_search_results" /\ docs # <<>> =>
        /\ strategy \in {"cross_encoder", "transformers", "heuristic"}
        /\ _cross_encoder = "CrossEncoder" /\ predict_outcome = "scores"
               => strategy = "cross_encoder"
        /\ strategy = "transformers" => _cross_encoder # "CrossEncoder"
        /\ _cross_encoder = "None" \/ predict_outcome = "raise" => strategy = "heuristic"

\* C9: no model failure leaves the reranker as an exception: constructing a
\* Reranker, rerank and rerank_search_results return when a load fails or the
\* model raises.
C9_NeverRaises ==
    pc \in {"Reranker", "rerank", "rerank_search_results"} =>
        /\ raised = ""
        /\ pc # "Reranker" => Len(returned) = Min(limit, Len(docs))

\* a call has returned its candidates although no model could be loaded, and
\* another although the loaded model raised
C9_Witness ==
    /\ raised = ""
    /\ docs # <<>>
    /\ returned # <<>>
    /\ \/ pc = "rerank_search_results" /\ load_outcome = "unavailable"
       \/ pc = "rerank" /\ predict_outcome = "raise"

----------------------------------------------------------------------------
\* The objects of the process.  normalize_search_results,
\* normalize_hybrid_scores and Reranker.rerank are handed references: the
\* heap maps an address to a dictionary or model instance [shape, fields] or
\* to a list [shape |-> "list", items], whose items are addresses.

\* the dictionaries of the list at address l
ValuesOf(h, l) == [i \in 1..Len(h[l].items) |-> h[h[l].items[i]].fields]

\* [...]: a new list with the given items
NewList(h, items) ==
    [heap |-> Append(h, [shape |-> "list", items |-> items]), at |-> Len(h) + 1]

\* mutant: no copy is made, the name is bound to the dictionary itself
DictCopyAliased(h, a) == [heap |-> h, at |-> a]

\* dict(result), {**result, ...}, docs[i].copy(): a new dictionary with the
\* keys and values of the one at address a
DictCopy(h, a) == [heap |-> Append(h, h[a]), at |-> Len(h) + 1]

\* the assignments item[key] = value that leave the dictionary at a with
\* the given keys and values
SetFields(h, a, fields) == [h EXCEPT ![a] = [shape |-> "dict", fields |-> fields]]

\* for i, item in enumerate(items, 1): item['rank'] = i
RECURSIVE RankOnHeap(_, _, _)
RankOnHeap(h, items, i) ==
    IF i > Len(items) THEN h
    ELSE RankOnHeap(SetFields(h, items[i], DictUpdate(h[items[i]].fields, [rank |-> i])),
                    items, i + 1)

\* the first loop of normalize_search_results from its i-th turn on: the
\* item of a dictionary is a copy of it, the item of a model instance is a
\* new dictionary; out is processed_results
RECURSIVE NormalizeItemsOnHeap(_, _, _, _)
NormalizeItemsOnHeap(h, raw_items, i, out) ==
    IF i > Len(raw_items) THEN [heap |-> h, items |-> out]
    ELSE LET result == h[raw_items[i]]
             item == IF result.shape = "dict" THEN DictCopy(h, raw_items[i])
                     ELSE [heap |-> Append(h, [shape |-> "dict", fields |-> <<>>]),
                           at |-> Len(h) + 1]
         IN  NormalizeItemsOnHeap(SetFields(item.heap, item.at, NormalizeOne(result)),
                                  raw_items, i + 1, Append(out, item.at))

\* normalize_search_results(results) on the list at address l: the heap it
\* leaves and the address of the list it returns
NormalizeSearchResultsOnHeap(h, l) ==
    LET looped == NormalizeItemsOnHeap(h, h[l].items, 1, <<>>)
    IN  NewList(RankOnHeap(looped.heap, looped.items, 1), looped.items)

\* the entries of result_map in the order of the fused list, from the i-th
\* on: an entry is {**result, ...}, a copy of the record it was made from,
\* and every later assignment is made to the entry
RECURSIVE FuseEntriesOnHeap(_, _, _, _, _)
FuseEntriesOnHeap(h, sources, fused, i, out) ==
    IF i > Len(fused) THEN [heap |-> h, items |-> out]
    ELSE LET entry == DictCopy(h, sources[i])
         IN  FuseEntriesOnHeap(SetFields(entry.heap, entry.at, fused[i]),
                               sources, fused, i + 1, Append(out, entry.at))

\* normalize_hybrid_scores on the lists at addresses v and t.  The entry of
\* a fused document is made from the last record of the vector list with its
\* doc_id, or else from the first one of the text list.
NormalizeHybridScoresOnHeap(h, v, t, vw, tw) ==
    LET fused == normalize_hybrid_scores(ValuesOf(h, v), ValuesOf(h, t), vw, tw)
        inV(doc_id) == {i \in 1..Len(h[v].items) : DocId(ValuesOf(h, v)[i]) = doc_id}
        inT(doc_id) == {i \in 1..Len(h[t].items) : DocId(ValuesOf(h, t)[i]) = doc_id}
        source(doc_id) ==
            IF inV(doc_id) # {}
            THEN h[v].items[CHOOSE i \in inV(doc_id) : \A j \in inV(doc_id) : j <= i]
            ELSE h[t].items[CHOOSE i \in inT(doc_id) : \A j \in inT(doc_id) : i <= j]
        sources == [i \in 1..Len(fused) |-> source(DocId(fused[i]))]
        entries == FuseEntriesOnHeap(h, sources, fused, 1, <<>>)
    IN  NewList(entries.heap, entries.items)

\* orig_doc = docs[i].copy(); orig_doc['rerank_score'] = float(score);
\* result_docs.append(orig_doc), from the i-th score on
RECURSIVE ScoreDocsOnHeap(_, _, _, _, _)
ScoreDocsOnHeap(h, doc_items, doc_scores, i, out) ==
    IF i > Len(doc_scores) THEN [heap |-> h, items |-> out]
    ELSE LET orig_doc == DictCopy(h, doc_items[i])
         IN  ScoreDocsOnHeap(SetFields(orig_doc.heap, orig_doc.at,
                                       DictUpdate(orig_doc.heap[orig_doc.at].fields,
                                                  [rerank_score |-> doc_scores[i]])),
                             doc_items, doc_scores, i + 1, Append(out, orig_doc.at))

\* mutant: the sort is not stable
SortOnHeapTiesReversed(h, items, field) ==
    LET keyed == [i \in 1..Len(items) |->
                     [at |-> items[i], rerank_score |-> h[items[i]].fields[field]]]
        sorted == SortedDescTiesReversed(keyed, "rerank_score")
    IN  [i \in 1..Len(sorted) |-> sorted[i].at]

\* result_docs.sort(key=lambda x: x['rerank_score'], reverse=True): the
\* items of the list after the sort
SortOnHeap(h, items, field) ==
    LET keyed == [i \in 1..Len(items) |->
                     [at |-> items[i], rerank_score |-> h[items[i]].fields[field]]]
        sorted == SortedDesc(keyed, "rerank_score")
    IN  [i \in 1..Len(sorted) |-> sorted[i].at]

\* Reranker.rerank on the list at address l: the heap it leaves, the
\* address of the list it returns and the scores of the call
RerankOnHeap(h, l, cross_encoder, q, lim, ml) ==
    IF h[l].items = <<>> THEN NewList(h, <<>>) @@ [scores |-> <<>>]
    ELSE LET document_texts ==
                 [i \in 1..Len(h[l].items) |->
                     DocumentText(ValuesOf(h, l)[i], "title_it", "content_it")]
             scored == Scores(cross_encoder, q, document_texts, ml)
             result_docs == ScoreDocsOnHeap(h, h[l].items, scored.scores, 1, <<>>)
             sorted == SortOnHeap(result_docs.heap, result_docs.items, "rerank_score")
         IN  NewList(RankOnHeap(result_docs.heap, sorted, 1), Take(sorted, lim))
                 @@ [scores |-> scored.scores]

\* objects a caller holds
MaxObjects == 2

\* longest list a caller passes
MaxRefs == 2

\* the record at address a of the caller's heap: a raw record for the
\* normalizer, a normalized record for the fusion, a candidate for the reranker
ObjectAt(callee, a) ==
    IF callee = "normalize_search_results"
    THEN IF a % 3 = 1 THEN RawDict("a", PFloat(Rat(1, 2)))
         ELSE IF a % 3 = 2 THEN RawObject("b", PFloat(Rat(3, 2)))
         ELSE RawDict("c", None)
    ELSE IF callee = "normalize_hybrid_scores"
    THEN [shape |-> "dict",
          fields |-> InputRecord(IF a % 3 = 1 THEN DocA
                                 ELSE IF a % 3 = 2 THEN DocB ELSE DocC, a)]
    ELSE [shape |-> "dict",
          fields |-> Candidate(IF a % 3 = 1 THEN "a" ELSE IF a % 3 = 2 THEN "b" ELSE "c")]

\* the lists a caller can build from its objects
ItemLists == UNION {[1..m -> 1..MaxObjects] : m \in 0..MaxRefs}

\* the caller's heap: its objects, then the two lists
ObjectsInit ==
    /\ pc \in {"normalize_search_results", "normalize_hybrid_scores", "rerank"}
    /\ raised = ""
    /\ \E first \in ItemLists :
         \E second \in IF pc = "normalize_hybrid_scores" THEN ItemLists ELSE {<<>>} :
            heap = [a \in 1..(MaxObjects + 2) |->
                       IF a <= MaxObjects THEN ObjectAt(pc, a)
                       ELSE IF a = MaxObjects + 1 THEN [shape |-> "list", items |-> first]
                       ELSE [shape |-> "list", items |-> second]]
    /\ entry_heap = heap
    /\ args = <<MaxObjects + 1, MaxObjects + 2>>
    /\ result_list = 0
    /\ scores = <<>>
    /\ query \in IF pc = "rerank" THEN Queries ELSE {<<>>}
    /\ limit \in IF pc = "rerank" THEN 1..MaxLimit ELSE {0}
    /\ _cross_encoder \in IF pc = "rerank" THEN {"None", "CrossEncoder", "dict"}
                          ELSE {"None"}
    /\ vector_weight = Rat(5, 10)
    /\ text_weight = Rat(5, 10)
    /\ vector_results = <<>>
    /\ text_results = <<>>
    /\ combined_results = <<>>
    /\ docs = <<>>
    /\ returned = <<>>
    /\ strategy = "none"
    /\ load_outcome = "none"
    /\ predict_outcome = "none"
    /\ NormalizeIdle
    /\ SearchIdle
    /\ ThreadsIdle
    /\ HeuristicIdle
    /\ TasksIdle

\* processed = normalize_search_results(results) with results the first list
NormalizeObjects ==
    /\ pc = "normalize_search_results"
    /\ \E call \in {NormalizeSearchResultsOnHeap(heap, args[1])} :
          /\ heap' = call.heap
          /\ result_list' = call.at
    /\ pc' = "normalize_search_results_returned"
    /\ UNCHANGED scores
    /\ UNCHANGED <<raised, entry_heap, args, fusionVars, normalizeVars, rerankVars,
                   searchVars, threadVars, heuristicVars, taskVars>>

\* combined = normalize_hybrid_scores(vector_results, text_results) with the
\* two lists
FuseObjects ==
    /\ pc = "normalize_hybrid_scores"
    /\ \E call \in {NormalizeHybridScoresOnHeap(heap, args[1], args[2],
                                                vector_weight, text_weight)} :
          /\ heap' = call.heap
          /\ result_list' = call.at
    /\ pc' = "normalize_hybrid_scores_returned"
    /\ UNCHANGED scores
    /\ UNCHANGED <<raised, entry_heap, args, fusionVars, normalizeVars, rerankVars,
                   searchVars, threadVars, heuristicVars, taskVars>>

\* reranked = reranker.rerank(query, docs, limit=limit) with docs the first
\* list, on an instance of a process whose shared model is _cross_encoder
RerankObjects ==
    /\ pc = "rerank"
    /\ \E ml \in MLOutcomes(Len(heap[args[1]].items)) :
        \E call \in {RerankOnHeap(heap, args[1], _cross_encoder, query, limit, ml)} :
          /\ heap' = call.heap
          /\ result_list' = call.at
          /\ scores' = call.scores
    /\ pc' = "rerank_returned"
    /\ UNCHANGED <<raised, entry_heap, args, fusionVars, normalizeVars, rerankVars,
                   searchVars, threadVars, heuristicVars, taskVars>>

ObjectsNext == NormalizeObjects \/ FuseObjects \/ RerankObjects

SpecObjects == ObjectsInit /\ [][ObjectsNext]_vars

\* the call has returned
ObjectsReturned ==
    pc \in {"normalize_search_results_returned", "normalize_hybrid_scores_returned",
            "rerank_returned"}

\* the records of the list the call returned
ReturnedRecords == ValuesOf(heap, result_list)

\* C21: normalize_search_results, normalize_hybrid_scores and
\* Reranker.rerank leave the lists and the records they were handed as they
\* were (same items, same order, same keys and values); the records they
\* return, with their scores, ranks and provenance, are objects the caller
\* did not hold.
C21_InputsUnchanged ==
    ObjectsReturned =>
        /\ \A a \in DOMAIN entry_heap : heap[a] = entry_heap[a]
        /\ result_list \notin DOMAIN entry_heap
        /\ \A i \in 1..Len(heap[result_list].items) :
              heap[result_list].items[i] \notin DOMAIN entry_heap

\* a document that is in both lists has been fused with another one, and
\* the fused records carry their ranks and provenance
C21_Witness ==
    /\ pc = "normalize_hybrid_scores_returned"
    /\ Len(ReturnedRecords) = 2
    /\ \E i \in 1..2 : ReturnedRecords[i]["search_type"] = "hybrid"
    /\ \A i \in 1..2 : ReturnedRecords[i]["rank"] = i

\* the candidates of the call, as they were handed over
EntryDocs == ValuesOf(entry_heap, args[1])

\* the place of candidate a in the order of the scores: one more than the
\* number of candidates that score higher, or the same and come before it
PlaceOf(a) ==
    1 + Cardinality({b \in 1..Len(scores) :
                        \/ RLess(scores[a], scores[b])
                        \/ scores[b] = scores[a] /\ b < a})

\* C22: Reranker.rerank returns its records by non-increasing rerank_score,
\* records of equal score in input order; the record at place i of that
\* order has rank i, and the first limit records are returned.
C22_SortedStableRanked ==
    pc = "rerank_returned" =>
        /\ Len(scores) = Len(EntryDocs)
        /\ Len(ReturnedRecords) = Min(limit, Len(EntryDocs))
        /\ \A a \in 1..Len(EntryDocs) :
              PlaceOf(a) <= limit =>
                  ReturnedRecords[PlaceOf(a)]
                      = DictUpdate(EntryDocs[a],
                                   [rerank_score |-> scores[a], rank |-> PlaceOf(a)])

\* two candidates of equal score and a limit that cuts the list
C22_Witness ==
    /\ pc = "rerank_returned"
    /\ Len(EntryDocs) = 2
    /\ EntryDocs[1] # EntryDocs[2]
    /\ scores[1] = scores[2]
    /\ limit = 1
    /\ Len(ReturnedRecords) = 1

----------------------------------------------------------------------------
\* get_e5_model and generate_query_embedding called by the threads of one
\* process: utils._e5_model is shared, nothing serializes the callers

Threads == 1..MaxThreads

EncoderInit ==
    /\ pc = "threads"
    /\ raised = ""
    /\ thread_pc = [t \in Threads |-> "idle"]
    /\ thread_model = [t \in Threads |-> 0]
    /\ _e5_model = 0
    /\ e5_loads = 0
    /\ reranker_calls = 0
    /\ load_attempts = 0
    /\ model_name = [t \in Threads |-> ""]
    /\ loaded_model_name = ""
    /\ latest_model_name = ""
    /\ FusionIdle
    /\ NormalizeIdle
    /\ RerankIdle
    /\ SearchIdle
    /\ HeuristicIdle
    /\ HeapIdle
    /\ TasksIdle

\* if _e5_model is None
ModelIsNone(e5_model) == e5_model = 0

\* thread t enters get_e5_model and tests the shared model
TestModel(t) ==
    /\ thread_pc[t] = "idle"
    /\ thread_pc' = [thread_pc EXCEPT ![t] =
                        IF ModelIsNone(_e5_model)
                        THEN "SentenceTransformer" ELSE "return"]
    /\ UNCHANGED <<thread_model, _e5_model, e5_loads>>

\* _e5_model = SentenceTransformer('intfloat/multilingual-e5-large'): the
\* constructor returns a new instance, or it raises
ConstructModel(t) ==
    /\ thread_pc[t] = "SentenceTransformer"
    /\ e5_loads' = e5_loads + 1
    /\ \E loaded \in BOOLEAN :
          IF loaded
          THEN /\ _e5_model' = e5_loads + 1
               /\ thread_pc' = [thread_pc EXCEPT ![t] = "return"]
          ELSE /\ thread_pc' = [thread_pc EXCEPT ![t] = "raised"]
               /\ UNCHANGED _e5_model
    /\ UNCHANGED thread_model

\* return _e5_model
ReturnModel(t) ==
    /\ thread_pc[t] = "return"
    /\ thread_model' = [thread_model EXCEPT ![t] = _e5_model]
    /\ thread_pc' = [thread_pc EXCEPT ![t] = "encode"]
    /\ UNCHANGED <<_e5_model, e5_loads>>

\* embedding = model.encode(prefixed_query): it returns, or it raises and
\* generate_query_embedding raises again
Encode(t) ==
    /\ thread_pc[t] = "encode"
    /\ \E encoded \in BOOLEAN :
          thread_pc' = [thread_pc EXCEPT ![t] = IF encoded THEN "returned" ELSE "raised"]
    /\ UNCHANGED <<thread_model, _e5_model, e5_loads>>

EncoderNext ==
    /\ \E t \in Threads :
          TestModel(t) \/ ConstructModel(t) \/ ReturnModel(t) \/ Encode(t)
    /\ UNCHANGED <<pc, raised, reranker_calls, load_attempts, model_name,
                   loaded_model_name, latest_model_name>>
    /\ UNCHANGED <<fusionVars, normalizeVars, rerankVars, searchVars,
                   heuristicVars, heapVars, taskVars>>

SpecEncoder == EncoderInit /\ [][EncoderNext]_vars

\* the threads that have been handed the model
Served == {t \in Threads : thread_pc[t] \in {"encode", "returned"}}

\* C13: however the first calls of the threads interleave, the embedding
\* model is constructed at most once, and all callers receive that instance.
C13_LoadedOnce ==
    /\ e5_loads <= 1
    /\ \A t, u \in Served : thread_model[t] = thread_model[u]

----------------------------------------------------------------------------
\* Reranker(...) called by the threads of one process, directly or through
\* rerank_search_results: Reranker._cross_encoder is shared

RerankerLoadInit ==
    /\ pc = "threads"
    /\ raised = ""
    /\ thread_pc = [t \in Threads |-> "idle"]
    /\ thread_model = [t \in Threads |-> 0]
    /\ _e5_model = 0
    /\ e5_loads = 0
    /\ reranker_calls = 0
    /\ load_attempts = 0
    /\ model_name = [t \in Threads |-> ""]
    /\ loaded_model_name = ""
    /\ latest_model_name = ""
    /\ FusionIdle
    /\ NormalizeIdle
    /\ RerankIdle
    /\ SearchIdle
    /\ HeuristicIdle
    /\ HeapIdle
    /\ TasksIdle

\* thread t calls Reranker(name), with the default of __init__, which
\* rerank_search_results constructs with, or with the model test_reranker.py
\* constructs with: __init__ stores the name and tests the shared model; the
\* instance is constructed when the test finds a model
StartReranker(t) ==
    /\ thread_pc[t] \in {"idle", "Reranker"}
    /\ reranker_calls < MaxCalls
    /\ reranker_calls' = reranker_calls + 1
    /\ \E name \in {"mixedbread-ai/mxbai-rerank-xsmall-v1", "BAAI/bge-reranker-v2-m3"} :
          /\ model_name' = [model_name EXCEPT ![t] = name]
          /\ latest_model_name' =
                IF IsAvailable(_cross_encoder) THEN name ELSE latest_model_name
    /\ thread_pc' = [thread_pc EXCEPT ![t] =
                        IF ~IsAvailable(_cross_encoder) THEN "_load_model" ELSE "Reranker"]
    /\ UNCHANGED <<_cross_encoder, load_attempts, load_outcome, loaded_model_name>>

\* self._load_model(): whatever the shared model is by now, it is replaced
\* by what the loaders produce for self.model_name
LoadReranker(t) ==
    /\ thread_pc[t] = "_load_model"
    /\ load_attempts' = load_attempts + 1
    /\ \E env \in LoadOutcomes :
          /\ _cross_encoder' = LoadModel(env).cross_encoder
          /\ load_outcome' = env
          /\ loaded_model_name' =
                IF IsAvailable(LoadModel(env).cross_encoder) THEN model_name[t] ELSE ""
    /\ latest_model_name' = model_name[t]
    /\ thread_pc' = [thread_pc EXCEPT ![t] = "Reranker"]
    /\ UNCHANGED <<reranker_calls, model_name>>

RerankerLoadNext ==
    /\ \E t \in Threads : StartReranker(t) \/ LoadReranker(t)
    /\ UNCHANGED <<pc, raised, thread_model, _e5_model, e5_loads>>
    /\ UNCHANGED <<query, docs, limit, returned, strategy, predict_outcome>>
    /\ UNCHANGED <<fusionVars, normalizeVars, searchVars,
                   heuristicVars, heapVars, taskVars>>

SpecRerankerLoad == RerankerLoadInit /\ [][RerankerLoadNext]_vars

\* C14: over any sequence and interleaving of Reranker constructions in one
\* process the load of the cross-encoder is attempted at most once, whether
\* it succeeded or failed.
C14_LoadAttemptedOnce == load_attempts <= 1

\* C30: after any sequence of Reranker(model_name) constructions in one
\* process, the shared cross-encoder that rerank uses, when one is loaded,
\* is the model named by the model_name of the instance constructed last.
C30_ScoresWithOwnModel ==
    IsAvailable(_cross_encoder) /\ latest_model_name # ""
        => loaded_model_name = latest_model_name

----------------------------------------------------------------------------
\* create_all_embeddings (articles/tasks.py): one run of the task.  An article
\* is the number of its place in the collection; the limit argument None is
\* 0, which the task treats the same way ("limit if limit else ...").

Articles == 1..MaxArticles

Smallest(S) == CHOOSE x \in S : \A y \in S : x <= y

\* list(collection.find(query).limit(n)): the first n articles that match the
\* query, in the order of the collection
RECURSIVE FindLimit(_, _)
FindLimit(matching, n) ==
    IF matching = {} \/ n = 0 THEN <<>>
    ELSE <<Smallest(matching)>> \o FindLimit(matching \ {Smallest(matching)}, n - 1)

\* mutant: a batch whose embedding failed is not counted
BatchFailedUncounted(n_failed, texts) == n_failed

\* failed += len(texts)
BatchFailed(n_failed, texts) == n_failed + Len(texts)

\* the first n articles of the batch are counted once more
CountedMore(times, ids, n) ==
    [a \in DOMAIN times |->
        times[a] + Cardinality({i \in 1..Min(n, Len(ids)) : ids[i] = a})]

EmbeddingsInit ==
    /\ pc = "create_all_embeddings"
    /\ raised = ""
    /\ need_embedding \in {1..n : n \in 0..MaxArticles}
    /\ batch_size \in 1..MaxBatch
    /\ limit \in 0..MaxArticles
    /\ total_need_embedding = 0
    /\ articles_to_process = 0
    /\ processed = 0
    /\ failed = 0
    /\ article_ids = <<>>
    /\ idx = 0
    /\ counted = [a \in Articles |-> 0]
    /\ _cross_encoder = "None"
    /\ query = <<>>
    /\ docs = <<>>
    /\ returned = <<>>
    /\ strategy = "none"
    /\ load_outcome = "none"
    /\ predict_outcome = "none"
    /\ FusionIdle
    /\ NormalizeIdle
    /\ SearchIdle
    /\ ThreadsIdle
    /\ HeuristicIdle
    /\ HeapIdle

\* total_need_embedding = collection.count_documents(query); the early
\* return when it is 0; articles_to_process, processed = 0, failed = 0
CountDocuments ==
    /\ pc = "create_all_embeddings"
    /\ total_need_embedding' = Cardinality(need_embedding)
    /\ articles_to_process' =
          IF need_embedding = {} THEN 0
          ELSE Min(IF limit # 0 THEN limit ELSE Cardinality(need_embedding),
                   Cardinality(need_embedding))
    /\ pc' = IF need_embedding = {} THEN "returned" ELSE "while"
    /\ UNCHANGED <<need_embedding, processed, failed, article_ids, batch_size, idx,
                   counted>>
    /\ UNCHANGED <<raised, fusionVars, normalizeVars, rerankVars, searchVars, threadVars,
                   heuristicVars, heapVars>>

\* while processed + failed < articles_to_process:
\*     articles = list(collection.find(query).limit(batch_size))
\*     if not articles: break
\* and the return of the statistics after the loop
FetchBatch ==
    /\ pc = "while"
    /\ IF processed + failed < articles_to_process
       THEN /\ article_ids' = FindLimit(need_embedding, batch_size)
            /\ pc' = IF FindLimit(need_embedding, batch_size) = <<>>
                     THEN "returned" ELSE "encode"
       ELSE /\ pc' = "returned"
            /\ UNCHANGED article_ids
    /\ idx' = 0
    /\ UNCHANGED <<need_embedding, total_need_embedding, articles_to_process, processed,
                   failed, batch_size, counted>>
    /\ UNCHANGED <<raised, fusionVars, normalizeVars, rerankVars, searchVars, threadVars,
                   heuristicVars, heapVars>>

\* model = get_e5_model(); embeddings = model.encode(prefixed_texts): it
\* returns, it raises a rate-limit error, or it raises another error and
\* the batch is counted as failed
EncodeBatch ==
    /\ pc = "encode"
    /\ \E outcome \in {"embeddings", "rate_limit", "error"} :
          /\ pc' = IF outcome = "embeddings" THEN "update_one"
                   ELSE IF outcome = "rate_limit" THEN "retry"
                   ELSE "while"
          /\ failed' = IF outcome = "error" THEN BatchFailed(failed, article_ids)
                       ELSE failed
          /\ counted' = IF outcome = "error"
                        THEN CountedMore(counted, article_ids,
                                         BatchFailed(failed, article_ids) - failed)
                        ELSE counted
    /\ UNCHANGED <<need_embedding, total_need_embedding, articles_to_process, processed,
                   article_ids, batch_size, idx>>
    /\ UNCHANGED <<raised, fusionVars, normalizeVars, rerankVars, searchVars, threadVars,
                   heuristicVars, heapVars>>

\* the single retry after sleep(70): it returns the embeddings, or it raises
\* and the batch is counted as failed
RetryBatch ==
    /\ pc = "retry"
    /\ \E outcome \in {"embeddings", "error"} :
          /\ pc' = IF outcome = "embeddings" THEN "retry_update_one" ELSE "while"
          /\ failed' = IF outcome = "error" THEN BatchFailed(failed, article_ids)
                       ELSE failed
          /\ counted' = IF outcome = "error"
                        THEN CountedMore(counted, article_ids,
                                         BatchFailed(failed, article_ids) - failed)
                        ELSE counted
    /\ UNCHANGED <<need_embedding, total_need_embedding, articles_to_process, processed,
                   article_ids, batch_size, idx>>
    /\ UNCHANGED <<raised, fusionVars, normalizeVars, rerankVars, searchVars, threadVars,
                   heuristicVars, heapVars>>

\* one turn of "for idx, (article_id, embedding) in enumerate(zip(...))", of
\* the first attempt or of the retry: collection.update_one stores the
\* embedding and processed += 1, or it raises and failed += 1
UpdateOne ==
    /\ pc \in {"update_one", "retry_update_one"}
    /\ \E updated \in BOOLEAN :
          /\ need_embedding' = IF updated THEN need_embedding \ {article_ids[idx + 1]}
                               ELSE need_embedding
          /\ processed' = IF updated THEN processed + 1 ELSE processed
          /\ failed' = IF updated THEN failed ELSE failed + 1
    /\ counted' = [counted EXCEPT ![article_ids[idx + 1]] = @ + 1]
    /\ idx' = idx + 1
    /\ pc' = IF idx + 1 = Len(article_ids) THEN "while" ELSE pc
    /\ UNCHANGED <<total_need_embedding, articles_to_process, article_ids, batch_size>>
    /\ UNCHANGED <<raised, fusionVars, normalizeVars, rerankVars, searchVars, threadVars,
                   heuristicVars, heapVars>>

EmbeddingsNext == CountDocuments \/ FetchBatch \/ EncodeBatch \/ RetryBatch \/ UpdateOne

SpecEmbeddings == EmbeddingsInit /\ [][EmbeddingsNext]_vars

\* every call of the task (count_documents, find, encode, update_one) has
\* an outcome, and the task takes its next step
SpecEmbeddingsLive == SpecEmbeddings /\ WF_vars(EmbeddingsNext)

\* C25: with a limit the task handles at most limit articles: whatever the
\* batch_size and the outcomes, processed + failed never exceeds limit.
C25_AtMostLimit == limit # 0 => processed + failed <= limit

\* C28: the task ends: for every batch_size >= 1 and every sequence of
\* outcomes of encode, of the retry and of the updates, the loop exits and
\* the statistics are returned.
C28_Terminates == <>(pc = "returned")

\* the task has returned after failures and successes, an article having
\* been fetched again after it was counted
C28_Witness ==
    /\ pc = "returned"
    /\ processed > 0
    /\ failed > 0
    /\ \E a \in Articles : counted[a] > 1

\* C29: processed + failed never exceeds the number of articles that needed
\* an embedding when the task started (remaining is never negative), and no
\* article is counted more than once.
C29_StatisticsConsistent ==
    pc # "create_all_embeddings" =>
        /\ processed + failed <= total_need_embedding
        /\ \A a \in Articles : counted[a] <= 1

----------------------------------------------------------------------------
\* perform_vector_search, perform_atlas_search, perform_hybrid_search

\* what raw_aggregate does with a pipeline: it raises, or it returns the hits
\* of distinct documents, at most as many as the pipeline's limit
HitOrders ==
    UNION {{f \in [1..m -> {"a", "b", "c"}] : \A i, j \in 1..m : i # j => f[i] # f[j]}
           : m \in 0..MaxHits}

\* the hits of $vectorSearch: similarities that fall with the position
VectorHits(shape, order) ==
    [p \in 1..Len(order) |->
        IF shape = "dict" THEN RawDict(order[p], PFloat(Rat(10 - p, 10)))
        ELSE RawObject(order[p], PFloat(Rat(10 - p, 10)))]

\* the hits of $search: search scores that fall with the position
TextHits(shape, order) ==
    [p \in 1..Len(order) |->
        IF shape = "dict" THEN RawDict(order[p], PFloat(Rat(7 - p, 2)))
        ELSE RawObject(order[p], PFloat(Rat(7 - p, 2)))]

\* index is "vector" for the $vectorSearch stage, "text" for the $search stage
AggregateOutcomes(fetch_limit, shape, index) ==
    {[kind |-> "raise"]}
        \cup {[kind |-> "hits",
               hits |-> IF index = "vector" THEN VectorHits(shape, order)
                        ELSE TextHits(shape, order)] :
                 order \in {o \in HitOrders : Len(o) <= fetch_limit}}

\* what a call of rerank_search_results is not given when it is not made
NoModel == [load |-> "unavailable", ml |-> [kind |-> "raise"]]

\* what the embedding model does in a call of generate_query_embedding: it
\* encodes the query, get_e5_model raises, or model.encode raises
EmbeddingOutcomes == {"ok", "load_raises", "encode_raises"}

\* mutant: an error yields None instead of an exception, as the docstring of
\* generate_query_embedding has it
GenerateQueryEmbeddingReturnsNone(env) == [raised |-> ""]

\* generate_query_embedding: the exception that leaves it
GenerateQueryEmbedding(env) ==
    IF env = "ok" THEN [raised |-> ""] ELSE [raised |-> "Exception"]

\* perform_vector_search: emb is what the embedding model does, agg what
\* raw_aggregate does, model what the reranker's models do
PerformVectorSearch(q, num_candidates, lim, rerank, emb, agg, cross_encoder, model) ==
    IF GenerateQueryEmbedding(emb).raised # ""
    THEN [raised |-> "Exception", returned |-> <<>>, cross_encoder |-> cross_encoder]
    ELSE IF agg.kind = "raise"
    THEN [raised |-> "Exception", returned |-> <<>>, cross_encoder |-> cross_encoder]
    ELSE IF NormalizeRaises(agg.hits) # {}
    THEN [raised |-> "Exception", returned |-> <<>>, cross_encoder |-> cross_encoder]
    ELSE LET normalized_results == normalize_search_results(agg.hits)
             reranked == RerankSearchResults(cross_encoder, q, normalized_results, lim,
                                             model.load, model.ml)
         IN  IF rerank /\ Len(normalized_results) > 1
             THEN IF reranked.raised = ""
                  THEN [raised |-> "", returned |-> reranked.returned,
                        cross_encoder |-> reranked.cross_encoder]
                  ELSE [raised |-> "", returned |-> Take(normalized_results, lim),
                        cross_encoder |-> reranked.cross_encoder]
             ELSE [raised |-> "", returned |-> Take(normalized_results, lim),
                   cross_encoder |-> cross_encoder]

\* fetch_limit = num_candidates if apply_reranking else limit
VectorFetchLimit(num_candidates, lim, rerank) == IF rerank THEN num_candidates ELSE lim

\* the $vectorSearch stage of the pipeline build_vector_search_pipeline
\* makes and perform_vector_search hands to raw_aggregate: none when
\* generate_query_embedding raised before the pipeline was built
IssuedStage(num_candidates, lim, rerank, emb) ==
    IF GenerateQueryEmbedding(emb).raised # "" THEN <<>>
    ELSE <<[numCandidates |-> num_candidates,
            limit |-> VectorFetchLimit(num_candidates, lim, rerank)]>>

\* perform_atlas_search
PerformAtlasSearch(lim, agg) ==
    IF agg.kind = "raise" THEN [raised |-> "Exception", returned |-> <<>>]
    ELSE IF NormalizeRaises(agg.hits) # {} THEN [raised |-> "Exception", returned |-> <<>>]
    ELSE [raised |-> "", returned |-> normalize_search_results(agg.hits)]

\* fetch_limit = limit * 2
HybridFetchLimit(lim) == lim * 2

\* mutant: the exception of the search is not caught
CaughtResultsPropagating(call) ==
    IF call.raised # "" THEN [results |-> <<>>, raised |-> call.raised]
    ELSE [results |-> call.returned, raised |-> ""]

\* try: vector_results = perform_vector_search(...)
\* except Exception: vector_results = []
\* and the same for the text search: the list kept, and the exception that
\* leaves the statement
CaughtResults(call) ==
    IF call.raised # "" THEN [results |-> <<>>, raised |-> ""]
    ELSE [results |-> call.returned, raised |-> ""]

\* mutant: the slice is one record short
OnlySucceededOneShort(survivor, lim) == Take(survivor, lim - 1)

\* return text_results[:limit] / return vector_results[:limit]
OnlySucceeded(survivor, lim) == Take(survivor, lim)

\* perform_hybrid_search from "If both searches failed" on
CombineResults(q, vr, tr, lim, vw, tw, rerank, cross_encoder, model) ==
    LET idle == [cross_encoder |-> cross_encoder, hybrid_results |-> <<>>,
                 strategy |-> "none", raised |-> ""]
    IN  IF vr = <<>> /\ tr = <<>>
        THEN [idle EXCEPT !.raised = "Exception"] @@ [returned |-> <<>>]
        ELSE IF vr = <<>> THEN idle @@ [returned |-> OnlySucceeded(tr, lim)]
        ELSE IF tr = <<>> THEN idle @@ [returned |-> OnlySucceeded(vr, lim)]
        ELSE LET hybrid_results == normalize_hybrid_scores(vr, tr, vw, tw)
                 reranked == RerankSearchResults(cross_encoder, q, hybrid_results, lim,
                                                 model.load, model.ml)
             IN  IF rerank /\ Len(hybrid_results) > 1
                 THEN [cross_encoder  |-> reranked.cross_encoder,
                       hybrid_results |-> hybrid_results,
                       strategy       |-> reranked.strategy,
                       raised         |-> "",
                       returned       |-> IF reranked.raised = "" THEN reranked.returned
                                          ELSE Take(hybrid_results, lim)]
                 ELSE [idle EXCEPT !.hybrid_results = hybrid_results]
                          @@ [returned |-> Take(hybrid_results, lim)]

----------------------------------------------------------------------------
\* One call of perform_hybrid_search, or of perform_vector_search on its own

\* the query and the limit of the call: well-formed ones, an empty query,
\* limits that are not positive, and a limit above the num_candidates of the
\* search view and above half the num_candidates of the hybrid search
CallInputs ==
    {[query |-> <<"e", "c", "o">>, limit |-> n] : n \in 1..MaxLimit}
        \cup {[query |-> <<>>, limit |-> 1],
              [query |-> <<"e", "c", "o">>, limit |-> 0],
              [query |-> <<"e", "c", "o">>, limit |-> -1],
              [query |-> <<"e", "c", "o">>, limit |-> 51]}

HybridInit ==
    /\ pc \in {"perform_hybrid_search", "perform_vector_search"}
    /\ raised = ""
    /\ \E call \in CallInputs : query = call.query /\ limit = call.limit
    /\ apply_reranking \in BOOLEAN
    /\ vector_weight = Rat(6, 10)
    /\ text_weight = Rat(4, 10)
    /\ raw_shape \in {"dict", "object"}
    /\ _cross_encoder \in {"None", "CrossEncoder"}
    /\ vector_results = <<>>
    /\ text_results = <<>>
    /\ combined_results = <<>>
    /\ vector_outcome = "none"
    /\ text_outcome = "none"
    /\ embedding = "none"
    /\ vector_stage = <<>>
    /\ docs = <<>>
    /\ returned = <<>>
    /\ strategy = "none"
    /\ load_outcome = "none"
    /\ predict_outcome = "none"
    /\ NormalizeIdle
    /\ ThreadsIdle
    /\ HeuristicIdle
    /\ HeapIdle
    /\ TasksIdle

\* the model load or raw_aggregate of perform_vector_search never answers:
\* no timeout is passed, the call does not return; the pipeline has been
\* built when it is raw_aggregate that does not answer
VectorSearchBlocks ==
    /\ pc \in {"perform_hybrid_search", "perform_vector_search"}
    /\ vector_outcome' = "no_response"
    /\ \E waits_for \in {"get_e5_model", "raw_aggregate"} :
          vector_stage' =
              IF waits_for = "get_e5_model" THEN <<>>
              ELSE IF pc = "perform_hybrid_search"
                   THEN IssuedStage(100, HybridFetchLimit(limit), FALSE, "ok")
                   ELSE IssuedStage(50, limit, apply_reranking, "ok")
    /\ pc' = "blocked"
    /\ UNCHANGED <<raised, fusionVars, normalizeVars, rerankVars, apply_reranking,
                   text_outcome, raw_shape, embedding, threadVars,
                   heuristicVars, heapVars, taskVars>>

\* try: vector_results = perform_vector_search(query, num_candidates=100,
\*                           limit=fetch_limit, apply_reranking=False)
VectorSearch ==
    /\ pc = "perform_hybrid_search"
    /\ \E emb \in EmbeddingOutcomes :
        \E agg \in AggregateOutcomes(VectorFetchLimit(100, HybridFetchLimit(limit), FALSE),
                                     raw_shape, "vector") :
        \E call \in {PerformVectorSearch(query, 100, HybridFetchLimit(limit), FALSE,
                                          emb, agg, _cross_encoder, NoModel)} :
        \E kept \in {CaughtResults(call)} :
              /\ GenerateQueryEmbedding(emb).raised # "" => agg.kind = "raise"
              /\ embedding' = emb
              /\ vector_stage' = IssuedStage(100, HybridFetchLimit(limit), FALSE, emb)
              /\ vector_outcome' = IF call.raised # "" THEN "raised" ELSE "returned"
              /\ vector_results' = kept.results
              /\ raised' = kept.raised
              /\ pc' = IF kept.raised # "" THEN "raised" ELSE "text_search"
    /\ UNCHANGED <<text_results, vector_weight, text_weight, combined_results,
                   normalizeVars, rerankVars, apply_reranking, text_outcome, raw_shape,
                   threadVars, heuristicVars, heapVars, taskVars>>

\* raw_aggregate of perform_atlas_search never answers
AtlasSearchBlocks ==
    /\ pc = "text_search"
    /\ text_outcome' = "no_response"
    /\ pc' = "blocked"
    /\ UNCHANGED <<raised, fusionVars, normalizeVars, rerankVars, apply_reranking,
                   vector_outcome, raw_shape, embedding, vector_stage, threadVars,
                   heuristicVars, heapVars, taskVars>>

\* try: text_results = perform_atlas_search(query, limit=fetch_limit)
AtlasSearch ==
    /\ pc = "text_search"
    /\ \E agg \in AggregateOutcomes(HybridFetchLimit(limit), raw_shape, "text") :
        \E call \in {PerformAtlasSearch(HybridFetchLimit(limit), agg)} :
        \E kept \in {CaughtResults(call)} :
              /\ text_outcome' = IF call.raised # "" THEN "raised" ELSE "returned"
              /\ text_results' = kept.results
              /\ raised' = kept.raised
              /\ pc' = IF kept.raised # "" THEN "raised" ELSE "combine"
    /\ UNCHANGED <<vector_results, vector_weight, text_weight, combined_results,
                   normalizeVars, rerankVars, apply_reranking, vector_outcome, raw_shape,
                   embedding, vector_stage, threadVars, heuristicVars, heapVars, taskVars>>

ModelOutcomes(n) ==
    {[load |-> env, ml |-> ml] : env \in LoadOutcomes, ml \in MLOutcomes(n)}

\* the rest of perform_hybrid_search: both failed, one succeeded, or fusion
\* and the optional reranking; the reranker's models are consulted only when
\* the fused list is reranked
Combine ==
    /\ pc = "combine"
    /\ \E fused \in {IF vector_results # <<>> /\ text_results # <<>>
                     THEN normalize_hybrid_scores(vector_results, text_results,
                                                  vector_weight, text_weight)
                     ELSE <<>>} :
       \E reranks \in {apply_reranking /\ Len(fused) > 1} :
       \E model \in IF reranks THEN ModelOutcomes(Len(fused)) ELSE {NoModel} :
       \E call \in {CombineResults(query, vector_results, text_results, limit,
                                   vector_weight, text_weight, apply_reranking,
                                   _cross_encoder, model)} :
                 /\ returned' = call.returned
                 /\ raised' = call.raised
                 /\ combined_results' = fused
                 /\ _cross_encoder' = call.cross_encoder
                 /\ strategy' = call.strategy
                 /\ docs' = IF reranks THEN fused ELSE <<>>
                 /\ load_outcome' = IF reranks /\ _cross_encoder = "None"
                                    THEN model.load ELSE "none"
                 /\ predict_outcome' = IF reranks
                                       THEN PredictOutcome(call.cross_encoder, fused, model.ml)
                                       ELSE "none"
                 /\ pc' = IF call.raised # "" THEN "raised" ELSE "returned"
    /\ UNCHANGED <<vector_results, text_results, vector_weight, text_weight,
                   query, limit, normalizeVars, searchVars, threadVars,
                   heuristicVars, heapVars, taskVars>>

\* perform_vector_search(query, Article, num_candidates=50, limit=limit,
\*                       apply_reranking=apply_reranking) called on its own,
\* as the search view calls it; the reranker's models are consulted only
\* when the normalized list is reranked
VectorSearchAlone ==
    /\ pc = "perform_vector_search"
    /\ \E emb \in EmbeddingOutcomes :
        \E agg \in AggregateOutcomes(VectorFetchLimit(50, limit, apply_reranking),
                                     raw_shape, "vector") :
        \E model \in IF apply_reranking /\ agg.kind = "hits" /\ Len(agg.hits) > 1
                      THEN ModelOutcomes(Len(agg.hits)) ELSE {NoModel} :
        \E call \in {PerformVectorSearch(query, 50, limit, apply_reranking,
                                          emb, agg, _cross_encoder, model)} :
              /\ GenerateQueryEmbedding(emb).raised # "" => agg.kind = "raise"
              /\ embedding' = emb
              /\ vector_stage' = IssuedStage(50, limit, apply_reranking, emb)
              /\ vector_outcome' = IF call.raised # "" THEN "raised" ELSE "returned"
              /\ returned' = call.returned
              /\ raised' = call.raised
              /\ _cross_encoder' = call.cross_encoder
              /\ pc' = IF call.raised # "" THEN "vector_search_raised"
                       ELSE "vector_search_returned"
    /\ UNCHANGED <<fusionVars, normalizeVars, query, docs, limit, strategy, load_outcome,
                   predict_outcome, apply_reranking, text_outcome, raw_shape,
                   threadVars, heuristicVars, heapVars, taskVars>>

HybridNext ==
    \/ VectorSearch
    \/ VectorSearchBlocks
    \/ AtlasSearch
    \/ AtlasSearchBlocks
    \/ Combine
    \/ VectorSearchAlone

SpecHybrid == HybridInit /\ [][HybridNext]_vars

\* the positions of a call
CallPositions ==
    {"perform_hybrid_search", "perform_vector_search", "text_search", "combine",
     "blocked", "returned", "raised", "vector_search_returned", "vector_search_raised"}

\* the positions at which the thread of the call is running
Running == {"perform_hybrid_search", "perform_vector_search", "text_search", "combine"}

\* the thread of the call leaves the position it is running at
Proceed == pc \in Running /\ pc' \in CallPositions \ {pc}

\* a running call takes its next step; nothing makes an index or a model
\* answer, and a call that waits for an answer takes no step
SpecHybridLive == SpecHybrid /\ WF_pc(Proceed)

\* a retriever failed: it raised or it returned nothing
VectorFailed ==
    vector_outcome = "raised" \/ (vector_outcome = "returned" /\ vector_results = <<>>)

TextFailed ==
    text_outcome = "raised" \/ (text_outcome = "returned" /\ text_results = <<>>)

C3_VectorOnlyRRFScore ==
    pc = "returned" /\ TextFailed /\ ~VectorFailed =>
        \A r \in 1..Len(returned) :
            returned[r]["score"] = Rat(100 * vector_weight.num, vector_weight.den * (60 + r))

\* the call was made with an empty query or a limit that is not positive
Malformed == query = <<>> \/ limit <= 0

\* C15: a call with an empty query or a non-positive limit fails before any
\* embedding, index query or text search is issued.
C15_MalformedRejected ==
    Malformed =>
        /\ embedding = "none"
        /\ vector_outcome = "none"
        /\ text_outcome = "none"
        /\ pc \notin {"returned", "vector_search_returned"}

\* C16: perform_atlas_search does not raise: when the text index is absent
\* or its query raises, it returns the empty list.
C16_AtlasSoftFailure ==
    /\ text_outcome # "raised"
    /\ text_outcome = "returned" => raised = ""

\* generate_query_embedding failed: the model did not load or encode raised
EmbeddingFailed == embedding \in {"load_raises", "encode_raises"}

C27_LimitWithinCandidates ==
    limit > 0 =>
        \A i \in 1..Len(vector_stage) :
            vector_stage[i].limit <= vector_stage[i].numCandidates

\* C18: a search call always ends: it returns or it raises, even when an
\* index query, a text query or a model load never answers.
C18_AlwaysEnds ==
    <>(pc \in {"returned", "raised", "vector_search_returned", "vector_search_raised"})

====
